---------------------------- MODULE Spec2Model ----------------------------
(***************************************************************************)
(* A model of jholidaydict.JHoliday: the lazily computed mapping from      *)
(* calendar date to Japanese holiday name for a query range                *)
(* [min_date, max_date].                                                   *)
(*                                                                         *)
(* A datetime.date is modelled by its proleptic Gregorian ordinal          *)
(* (date.toordinal(): 0001-01-01 is 1), a datetime.datetime by the triple  *)
(* <<ordinal, second of day, microsecond>>, a dict by a function from      *)
(* ordinals to labels, a generator by the sequence of the pairs it yields. *)
(* The labels are the romanised holiday names.                             *)
(***************************************************************************)
EXTENDS Integers, Sequences, FiniteSets, TLC

(***************************************************************************)
(* Bounds of the model.                                                    *)
(***************************************************************************)
\* The unbounded generator _iter_dates is cut after this year; every
\* max_date of the model lies before it, so the cut is never observed.
HorizonYear == 2023
\* A day window starts up to MaxBefore days before an anchor date ...
MaxBefore == 1
\* ... and spans -1 (max_date < min_date) to MaxSpan days.
MaxSpan == 4
\* from_year(y, y + n) for n up to MaxYearSpan.
MaxYearSpan == 1

(***************************************************************************)
(* datetime.date arithmetic.                                               *)
(***************************************************************************)
IsLeap(y) == (y % 4 = 0) /\ ((y % 100 # 0) \/ (y % 400 = 0))

DaysBeforeYear(y) ==
    (y - 1) * 365 + ((y - 1) \div 4) - ((y - 1) \div 100) + ((y - 1) \div 400)

DaysBeforeMonth(y, m) ==
    LET cum == <<0, 31, 59, 90, 120, 151, 181, 212, 243, 273, 304, 334>>
    IN  cum[m] + (IF m > 2 /\ IsLeap(y) THEN 1 ELSE 0)

\* datetime.date(y, m, d)
Date(y, m, d) == DaysBeforeYear(y) + DaysBeforeMonth(y, m) + d

\* date.year
YearOf(o) ==
    LET g == ((o * 400) \div 146097) + 1
    IN  IF DaysBeforeYear(g) >= o THEN g - 1
        ELSE IF DaysBeforeYear(g + 1) < o THEN g + 1
        ELSE g

\* date.weekday(): Monday is 0, Sunday is 6
weekday(o) == (o + 6) % 7

(***************************************************************************)
(* The amendment dates.                                                    *)
(***************************************************************************)
DATE_00 == Date(1948, 7, 23)
DATE_01 == Date(1966, 6, 25)
DATE_KE == Date(1966, 12, 9)
DATE_02 == Date(1973, 4, 12)
DATE_03 == Date(1985, 12, 27)
DATE_04 == Date(1989, 2, 17)
DATE_05 == Date(1996, 1, 1)
DATE_HM == Date(2000, 1, 1)
DATE_06 == Date(2003, 1, 1)
DATE_07 == Date(2007, 1, 1)
DATE_08 == Date(2016, 1, 1)
DATE_09 == Date(2020, 1, 1)
DATE_TT == Date(2019, 5, 1)

\* The absent bound of _sorted_dates_filter (None in the source).
NoDate == 0

(***************************************************************************)
(* Sequence helpers for the generators.                                    *)
(***************************************************************************)
RECURSIVE FirstNotBelow(_, _, _)
\* the first index i >= from with s[i] >= lo, or Len(s) + 1
FirstNotBelow(s, lo, from) ==
    IF from > Len(s) THEN from
    ELSE IF s[from] >= lo THEN from
    ELSE FirstNotBelow(s, lo, from + 1)

RECURSIVE FirstAbove(_, _, _)
\* the first index i >= from with s[i] > hi, or Len(s) + 1
FirstAbove(s, hi, from) ==
    IF from > Len(s) THEN from
    ELSE IF s[from] > hi THEN from
    ELSE FirstAbove(s, hi, from + 1)

\* itertools.dropwhile(partial(operator.gt, lo), s)
DropWhileBelow(s, lo) == SubSeq(s, FirstNotBelow(s, lo, 1), Len(s))

\* takewhile with operator.gt: the upper bound left out
TakeWhileBelow(s, hi) == SubSeq(s, 1, FirstNotBelow(s, hi, 1) - 1)

\* itertools.takewhile(partial(operator.ge, hi), s)
TakeWhileAtMost(s, hi) == SubSeq(s, 1, FirstAbove(s, hi, 1) - 1)

_sorted_dates_filter(it, lo, hi) ==
    LET it1 == IF lo # NoDate THEN DropWhileBelow(it, lo) ELSE it
    IN  IF hi # NoDate THEN TakeWhileAtMost(it1, hi) ELSE it1

\* ((date, h) for date in it)
Labelled(it, h) == [i \in 1..Len(it) |-> <<it[i], h>>]

IsNot2020(o) == YearOf(o) # 2020

\* the generator without its test of date.year
LabelledExcept2020_NoTest(it, h) == Labelled(it, h)

\* ((date, h) for date in it if date.year != 2020)
LabelledExcept2020(it, h) == Labelled(SelectSeq(it, IsNot2020), h)

\* The dates _iter_dates(month, day) yields: one per year from DATE_00.year
\* on, by d.replace(year=d.year + 1).
YearlyDates(month, day) ==
    [i \in 1..(HorizonYear - YearOf(DATE_00) + 1) |->
        Date(YearOf(DATE_00) + i - 1, month, day)]

\* The dates _iter_nth_monday(month, n) yields.
YearlyNthMondays(month, n) ==
    LET dates == YearlyDates(month, 1)
    IN  [i \in 1..Len(dates) |->
            dates[i] + 7 * (n - 1) + ((7 - weekday(dates[i])) % 7)]

\* The (month, day) and (month, n) the catalogue asks for; the generators
\* are pure, so their output is tabulated once.
MonthDays ==
    { <<1, 1>>, <<1, 15>>, <<2, 11>>, <<2, 23>>, <<4, 29>>, <<5, 3>>, <<5, 4>>,
      <<5, 5>>, <<7, 20>>, <<8, 11>>, <<9, 15>>, <<10, 10>>, <<11, 3>>,
      <<11, 23>>, <<12, 23>> }

MonthNths == { <<1, 2>>, <<7, 3>>, <<9, 3>>, <<10, 2>> }

YearlyDatesTable == [md \in MonthDays |-> YearlyDates(md[1], md[2])]

YearlyNthMondaysTable == [mn \in MonthNths |-> YearlyNthMondays(mn[1], mn[2])]

_iter_dates(month, day) == YearlyDatesTable[<<month, day>>]

_iter_nth_monday(month, n) == YearlyNthMondaysTable[<<month, n>>]

iter_dates(lo, hi, month, day) ==
    _sorted_dates_filter(_iter_dates(month, day), lo, hi)

iter_nth_monday(lo, hi, month, n) ==
    _sorted_dates_filter(_iter_nth_monday(month, n), lo, hi)

(***************************************************************************)
(* The rule catalogue.  Every generator is a function of the instance's    *)
(* min_date and max_date and gives the sequence of the (date, name) pairs  *)
(* it yields, in the order it yields them.                                 *)
(***************************************************************************)
\* ganjitsu without its effective start
ganjitsu_NoStart(lo, hi) == Labelled(iter_dates(lo, hi, 1, 1), "Ganjitsu")

ganjitsu(lo, hi) ==
    Labelled(_sorted_dates_filter(iter_dates(lo, hi, 1, 1), DATE_00, NoDate),
             "Ganjitsu")

seijinnohi(lo, hi) ==
    Labelled(_sorted_dates_filter(iter_dates(lo, hi, 1, 15), DATE_00, DATE_HM),
             "SeijinNoHi")
    \o Labelled(_sorted_dates_filter(iter_nth_monday(lo, hi, 1, 2),
                                     DATE_HM, NoDate),
                "SeijinNoHi")

kenkokukinennohi(lo, hi) ==
    Labelled(_sorted_dates_filter(iter_dates(lo, hi, 2, 11), DATE_KE, NoDate),
             "KenkokuKinenNoHi")

\* timedelta(days=365.242189)
EquinoxDelta == <<365, 20925, 129600>>

\* datetime - timedelta
DtSub(dt, td) ==
    LET us == dt[3] - td[3]
        s  == dt[2] - td[2] - (IF us < 0 THEN 1 ELSE 0)
        d  == dt[1] - td[1] - (IF s < 0 THEN 1 ELSE 0)
    IN  <<d, IF s < 0 THEN s + 86400 ELSE s, IF us < 0 THEN us + 1000000 ELSE us>>

\* datetime + timedelta
DtAdd(dt, td) ==
    LET us == dt[3] + td[3]
        s  == dt[2] + td[2] + (IF us >= 1000000 THEN 1 ELSE 0)
        d  == dt[1] + td[1] + (IF s >= 86400 THEN 1 ELSE 0)
    IN  <<d, IF s >= 86400 THEN s - 86400 ELSE s,
          IF us >= 1000000 THEN us - 1000000 ELSE us>>

\* datetime.date()
DtDate(dt) == dt[1]

\* max(DATE_00, self.min_date)
EquinoxMin(lo) == IF DATE_00 >= lo THEN DATE_00 ELSE lo

RECURSIVE ShunbunBackward_Unclipped(_, _, _)
\* the first loop of shunbunnohi without its test against max_date
ShunbunBackward_Unclipped(dt, lower, hi) ==
    IF DtDate(dt) >= lower
    THEN << <<DtDate(dt), "ShunbunNoHi">> >>
         \o ShunbunBackward_Unclipped(DtSub(dt, EquinoxDelta), lower, hi)
    ELSE << >>

RECURSIVE ShunbunBackward(_, _, _)
\* the first loop of shunbunnohi, entered with dt
ShunbunBackward(dt, lower, hi) ==
    IF DtDate(dt) >= lower
    THEN (IF DtDate(dt) < hi THEN << <<DtDate(dt), "ShunbunNoHi">> >> ELSE << >>)
         \o ShunbunBackward(DtSub(dt, EquinoxDelta), lower, hi)
    ELSE << >>

RECURSIVE ShunbunForward(_, _, _)
\* the second loop of shunbunnohi, entered with dt
ShunbunForward(dt, lower, hi) ==
    IF DtDate(dt) < hi
    THEN (IF DtDate(dt) >= lower THEN << <<DtDate(dt), "ShunbunNoHi">> >>
          ELSE << >>)
         \o ShunbunForward(DtAdd(dt, EquinoxDelta), lower, hi)
    ELSE << >>

shunbunnohi(lo, hi) ==
    LET dt2018a == DtSub(<<Date(2018, 3, 21), 1 * 3600 + 15 * 60, 0>>,
                         <<0, 8 * 60, 0>>)
        dt2018b == DtAdd(dt2018a, <<0, (8 + 4) * 60, 0>>)
    IN  ShunbunBackward(dt2018a, EquinoxMin(lo), hi)
        \o ShunbunForward(DtAdd(dt2018b, EquinoxDelta), EquinoxMin(lo), hi)

showanohi(lo, hi) ==
    Labelled(_sorted_dates_filter(iter_dates(lo, hi, 4, 29), DATE_07, NoDate),
             "ShowaNoHi")

kenpokinenbi(lo, hi) ==
    Labelled(_sorted_dates_filter(iter_dates(lo, hi, 5, 3), DATE_00, NoDate),
             "KenpoKinenbi")

midorinohi(lo, hi) ==
    Labelled(_sorted_dates_filter(iter_dates(lo, hi, 4, 29), DATE_04, DATE_07),
             "MidoriNoHi")
    \o Labelled(_sorted_dates_filter(iter_dates(lo, hi, 5, 4), DATE_07, NoDate),
                "MidoriNoHi")

kodomonohi(lo, hi) ==
    Labelled(_sorted_dates_filter(iter_dates(lo, hi, 5, 5), DATE_00, NoDate),
             "KodomoNoHi")

\* if self.min_date <= d2020 <= self.max_date: yield d2020, h
Override2020(lo, hi, d2020, h) ==
    IF lo <= d2020 /\ d2020 <= hi THEN << <<d2020, h>> >> ELSE << >>

uminohi(lo, hi) ==
    Labelled(_sorted_dates_filter(iter_dates(lo, hi, 7, 20), DATE_05, DATE_06),
             "UmiNoHi")
    \o LabelledExcept2020(_sorted_dates_filter(iter_nth_monday(lo, hi, 7, 3),
                                               DATE_06, NoDate),
                          "UmiNoHi")
    \o Override2020(lo, hi, Date(2020, 7, 23), "UmiNoHi")

yamanohi(lo, hi) ==
    LabelledExcept2020(_sorted_dates_filter(iter_dates(lo, hi, 8, 11),
                                            DATE_08, NoDate),
                       "YamaNoHi")
    \o Override2020(lo, hi, Date(2020, 8, 10), "YamaNoHi")

keironohi(lo, hi) ==
    Labelled(_sorted_dates_filter(iter_dates(lo, hi, 9, 15), DATE_01, DATE_06),
             "KeiroNoHi")
    \o Labelled(_sorted_dates_filter(iter_nth_monday(lo, hi, 9, 3),
                                     DATE_06, NoDate),
                "KeiroNoHi")

RECURSIVE ShubunBackward(_, _)
\* the first loop of shubunnohi, entered with dt
ShubunBackward(dt, lower) ==
    IF DtDate(dt) >= lower
    THEN << <<DtDate(dt), "ShubunNoHi">> >>
         \o ShubunBackward(DtSub(dt, EquinoxDelta), lower)
    ELSE << >>

RECURSIVE ShubunForward(_, _)
\* the second loop of shubunnohi, entered with dt
ShubunForward(dt, hi) ==
    IF DtDate(dt) < hi
    THEN << <<DtDate(dt), "ShubunNoHi">> >>
         \o ShubunForward(DtAdd(dt, EquinoxDelta), hi)
    ELSE << >>

shubunnohi(lo, hi) ==
    LET dt2018 == DtSub(<<Date(2018, 9, 23), 10 * 3600 + 54 * 60, 0>>,
                        <<0, 2 * 60, 0>>)
        next   == DtAdd(dt2018, EquinoxDelta)
    IN  (IF DtDate(dt2018) < hi THEN ShubunBackward(dt2018, EquinoxMin(lo))
         ELSE << >>)
        \o (IF DtDate(next) >= EquinoxMin(lo) THEN ShubunForward(next, hi)
            ELSE << >>)

supotsunohi(lo, hi) ==
    LabelledExcept2020(_sorted_dates_filter(iter_nth_monday(lo, hi, 10, 2),
                                            DATE_09, NoDate),
                       "SupotsuNoHi")
    \o Override2020(lo, hi, Date(2020, 7, 24), "SupotsuNoHi")

taikunohi(lo, hi) ==
    Labelled(_sorted_dates_filter(iter_dates(lo, hi, 10, 10), DATE_01, DATE_HM),
             "TaiikuNoHi")
    \o Labelled(_sorted_dates_filter(iter_nth_monday(lo, hi, 10, 2),
                                     DATE_HM, DATE_09),
                "TaiikuNoHi")

bunkanohi(lo, hi) ==
    Labelled(_sorted_dates_filter(iter_dates(lo, hi, 11, 3), DATE_00, NoDate),
             "BunkaNoHi")

kinrokanshanohi(lo, hi) ==
    Labelled(_sorted_dates_filter(iter_dates(lo, hi, 11, 23), DATE_00, NoDate),
             "KinroKanshaNoHi")

tennotanjobi(lo, hi) ==
    Labelled(_sorted_dates_filter(iter_dates(lo, hi, 4, 29), DATE_00, DATE_04),
             "TennoTanjobi")
    \o Labelled(_sorted_dates_filter(iter_dates(lo, hi, 12, 23),
                                     DATE_04, DATE_TT),
                "TennoTanjobi")
    \o Labelled(_sorted_dates_filter(iter_dates(lo, hi, 2, 23), DATE_TT, NoDate),
                "TennoTanjobi")

_special ==
    << <<Date(1959, 4, 10), "KotaishiAkihitoKekkon">>,
       <<Date(1989, 2, 24), "TaisoNoRei">>,
       <<Date(1990, 11, 12), "SokuireiSeidenNoGi">>,
       <<Date(1993, 6, 9), "KotaishiNaruhitoKekkon">>,
       <<Date(2019, 5, 1), "SokuiNoHi">>,
       <<Date(2019, 10, 22), "SokuireiSeidenNoGi">> >>

\* itertools.compress(it2, (min_date <= date <= max_date for date in dates))
_holidays_filter(it, lo, hi) ==
    LET InRange(p) == lo <= p[1] /\ p[1] <= hi
    IN  SelectSeq(it, InRange)

special(lo, hi) == _holidays_filter(_special, lo, hi)

(***************************************************************************)
(* dict construction.                                                      *)
(***************************************************************************)
Keys(pairs) == {pairs[i][1] : i \in 1..Len(pairs)}

\* the value dict(pairs) holds for key k: that of the last pair with key k
LastValue(pairs, k) ==
    LET at == CHOOSE i \in 1..Len(pairs) :
                  /\ pairs[i][1] = k
                  /\ \A j \in (i + 1)..Len(pairs) : pairs[j][1] # k
    IN  pairs[at][2]

\* dict(pairs)
Dict(pairs) == [k \in Keys(pairs) |-> LastValue(pairs, k)]

\* d.update(pairs), as a value
DictUpdate(d, pairs) ==
    [k \in (DOMAIN d) \cup Keys(pairs) |->
        IF k \in Keys(pairs) THEN LastValue(pairs, k) ELSE d[k]]

\* dict(itertools.chain(self.ganjitsu(), ..., self.special()))
BaseHolidays(lo, hi) ==
    Dict(ganjitsu(lo, hi) \o seijinnohi(lo, hi) \o kenkokukinennohi(lo, hi)
         \o shunbunnohi(lo, hi) \o showanohi(lo, hi) \o kenpokinenbi(lo, hi)
         \o midorinohi(lo, hi) \o kodomonohi(lo, hi) \o uminohi(lo, hi)
         \o yamanohi(lo, hi) \o keironohi(lo, hi) \o shubunnohi(lo, hi)
         \o supotsunohi(lo, hi) \o taikunohi(lo, hi) \o bunkanohi(lo, hi)
         \o kinrokanshanohi(lo, hi) \o tennotanjobi(lo, hi) \o special(lo, hi))

(***************************************************************************)
(* The derived holidays.                                                   *)
(***************************************************************************)
furikae == "FurikaeKyujitsu"
kokuminno == "KokuminNoKyujitsu"

\* iter_all_dates
iter_all_dates(lo, hi) ==
    IF lo <= hi THEN [i \in 1..(hi - lo + 1) |-> lo + i - 1] ELSE << >>

\* the loop left out: the day after, holiday or not
SkipHolidays_None(one, holidays) == one

RECURSIVE SkipHolidays(_, _)
\* while one in holidays: one += timedelta(days=1)
SkipHolidays(one, holidays) ==
    IF one \in DOMAIN holidays THEN SkipHolidays(one + 1, holidays) ELSE one

\* the branch without its test that the day between is no Sunday
Sandwiched_AnyWeekday(date_, holidays, hi) ==
    IF /\ (date_ + 2) \in DOMAIN holidays
       /\ (date_ + 1) \notin DOMAIN holidays
       /\ date_ + 1 <= hi
    THEN << <<date_ + 1, kokuminno>> >>
    ELSE << >>

\* the branch "if two in holidays: ..." of the second and third era
Sandwiched(date_, holidays, hi) ==
    IF /\ (date_ + 2) \in DOMAIN holidays
       /\ (date_ + 1) \notin DOMAIN holidays
       /\ weekday(date_ + 1) # 6
       /\ date_ + 1 <= hi
    THEN << <<date_ + 1, kokuminno>> >>
    ELSE << >>

\* date_ < DATE_03: the next day of a Sunday holiday
Era1(date_, holidays, hi) ==
    IF /\ date_ \in DOMAIN holidays
       /\ weekday(date_) = 6
       /\ (date_ + 1) \notin DOMAIN holidays
       /\ date_ + 1 <= hi
    THEN << <<date_ + 1, furikae>> >>
    ELSE << >>

\* date_ < DATE_07
Era2(date_, holidays, hi) ==
    IF date_ \in DOMAIN holidays
    THEN IF /\ weekday(date_) = 6
            /\ (date_ + 1) \notin DOMAIN holidays
            /\ date_ + 1 <= hi
         THEN << <<date_ + 1, furikae>> >>
         ELSE Sandwiched(date_, holidays, hi)
    ELSE << >>

\* the third era with the rule of the second: the next day only
Era3_NextDayOnly(date_, holidays, hi) ==
    IF date_ \in DOMAIN holidays
    THEN IF /\ weekday(date_) = 6
            /\ (date_ + 1) \notin DOMAIN holidays
            /\ date_ + 1 <= hi
         THEN << <<date_ + 1, furikae>> >>
         ELSE Sandwiched(date_, holidays, hi)
    ELSE << >>

\* DATE_07 <= date_
Era3(date_, holidays, hi) ==
    IF date_ \in DOMAIN holidays
    THEN IF /\ weekday(date_) = 6
            /\ SkipHolidays(date_ + 1, holidays) <= hi
         THEN << <<SkipHolidays(date_ + 1, holidays), furikae>> >>
         ELSE Sandwiched(date_, holidays, hi)
    ELSE << >>

\* what one pass of the loop of kokuminnokyujitsu yields for date_
KyujitsuOf(date_, holidays, hi) ==
    IF date_ < DATE_02 THEN << >>
    ELSE IF date_ < DATE_03 THEN Era1(date_, holidays, hi)
    ELSE IF date_ < DATE_07 THEN Era2(date_, holidays, hi)
    ELSE Era3(date_, holidays, hi)

kokuminnokyujitsu(lo, hi, holidays) ==
    LET dates   == iter_all_dates(lo, hi)
        yields  == [i \in 1..Len(dates) |-> KyujitsuOf(dates[i], holidays, hi)]
        Some(y) == y # << >>
        kept    == SelectSeq(yields, Some)
    IN  [i \in 1..Len(kept) |-> kept[i][1]]

\* the value the property _holidays computes
Holidays(lo, hi) ==
    LET holidays == BaseHolidays(lo, hi)
    IN  DictUpdate(holidays, kokuminnokyujitsu(lo, hi, holidays))

(***************************************************************************)
(* The instance and its clients.                                           *)
(***************************************************************************)
VARIABLES
    min_date,        \* self.min_date
    max_date,        \* self.max_date
    _holidays_dict,  \* self._holidays_dict: << >> is None, <<d>> the dict d
    pc,              \* where each thread stands in the property _holidays
    served,          \* the dict the property last returned to each thread
    snapshot,        \* the dict(holidays) last handed to kokuminnokyujitsu
    ncomputed        \* how many times the dict has been computed

vars == <<min_date, max_date, _holidays_dict, pc, served, snapshot, ncomputed>>

Threads == {1, 2}

None == << >>

\* Dates the windows of the model are placed at: holidays of every kind
\* of rule, in every era of the derived holidays.
AnchorDates ==
    { Date(1948, 5, 3),   \* before DATE_00
      Date(1948, 11, 3),  \* the first holiday after DATE_00
      Date(1959, 4, 10),  \* a one-off event
      Date(1973, 2, 11),  \* a Sunday holiday before DATE_02
      Date(1981, 5, 3),   \* a Sunday holiday of the first era
      Date(1987, 5, 3),   \* a Sunday holiday of the second era
      Date(1988, 5, 3),   \* 05-04 between two holidays, second era
      Date(2008, 5, 4),   \* a Sunday holiday followed by holidays, third era
      Date(2017, 9, 23),  \* an autumnal equinox before 2018
      Date(2018, 1, 1),   \* a fixed date
      Date(2018, 1, 8),   \* a second Monday
      Date(2018, 3, 21),  \* the vernal equinox of 2018
      Date(2018, 9, 23),  \* the autumnal equinox of 2018, a Sunday
      Date(2019, 5, 1),   \* a one-off event between holidays
      Date(2019, 9, 23),  \* the first autumnal equinox after 2018
      Date(2020, 3, 20),  \* a vernal equinox after 2018
      Date(2020, 7, 23),  \* the 2020 dates of UmiNoHi and SupotsuNoHi
      Date(2020, 8, 10) } \* the 2020 date of YamaNoHi

\* The first years of from_year.
AnchorYears ==
    {1948, 1973, 1985, 1986, 1987, 2006, 2009, 2017, 2018, 2019, 2020, 2021}

\* __init__(min_date, max_date)
InitWindow ==
    \E a \in AnchorDates, o \in 0..MaxBefore, n \in -1..MaxSpan :
        /\ min_date = a - o
        /\ max_date = a - o + n

\* from_year(min_year, max_year)
InitYears ==
    \E y \in AnchorYears, n \in 0..MaxYearSpan :
        /\ min_date = Date(y, 1, 1)
        /\ max_date = Date(y + n, 12, 31)

Init ==
    /\ InitWindow \/ InitYears
    /\ _holidays_dict = None
    /\ pc = [t \in Threads |-> "idle"]
    /\ served = [t \in Threads |-> None]
    /\ snapshot = None
    /\ ncomputed = 0

\* The queries of the Mapping, each answered from the dict the property
\* _holidays returned: __contains__, __getitem__ (absent: KeyError),
\* __len__ and __iter__.
Contains(d, key) == key \in DOMAIN d
GetItem(d, key) == IF key \in DOMAIN d THEN d[key] ELSE "KeyError"
Length(d) == Cardinality(DOMAIN d)
Iter(d) == DOMAIN d

\* "if self._holidays_dict is None:" of the property _holidays
Enter(t) ==
    /\ pc[t] = "idle"
    /\ pc' = [pc EXCEPT ![t] = IF _holidays_dict = None THEN "compute"
                               ELSE "return"]
    /\ UNCHANGED <<min_date, max_date, _holidays_dict, served, snapshot, ncomputed>>

\* the body of that if: compute the dict and store it
Compute(t) ==
    /\ pc[t] = "compute"
    /\ LET holidays == BaseHolidays(min_date, max_date)
       IN  /\ snapshot' = <<holidays>>
           /\ _holidays_dict' =
                  <<DictUpdate(holidays,
                               kokuminnokyujitsu(min_date, max_date, holidays))>>
    /\ ncomputed' = ncomputed + 1
    /\ pc' = [pc EXCEPT ![t] = "return"]
    /\ UNCHANGED <<min_date, max_date, served>>

\* "return self._holidays_dict"
Return(t) ==
    /\ pc[t] = "return"
    /\ served' = [served EXCEPT ![t] = _holidays_dict]
    /\ pc' = [pc EXCEPT ![t] = "idle"]
    /\ UNCHANGED <<min_date, max_date, _holidays_dict, snapshot, ncomputed>>

Next == \E t \in Threads : Enter(t) \/ Compute(t) \/ Return(t)

Spec == Init /\ [][Next]_vars

(***************************************************************************)
(* Reference notions the properties are stated with.                       *)
(***************************************************************************)
Computed == _holidays_dict # None

\* the resolved map of the instance, once computed
TheMap == _holidays_dict[1]

\* the base map the derived pass was given
TheBase == snapshot[1]

\* d labelled h in the map m
Labels(m, d, h) == d \in DOMAIN m /\ m[d] = h

\* m without the key d
Without(m, d) == [k \in (DOMAIN m) \ {d} |-> m[k]]

\* the base holidays of the widest range of the model: what the catalogue
\* gives when the query range cuts nothing off
CatalogueBase == BaseHolidays(DATE_00, Date(HorizonYear, 12, 31))

\* the n-th Monday of a month, by definition
NthMonday(y, m, n) ==
    CHOOSE k \in Date(y, m, 7 * (n - 1) + 1)..Date(y, m, 7 * n) : weekday(k) = 0

\* the first date after d that is no base holiday
FirstNonHoliday(d, base) ==
    CHOOSE s \in (d + 1)..(max_date + 1) :
        /\ s \notin DOMAIN base
        /\ \A j \in (d + 1)..(s - 1) : j \in DOMAIN base

\* C1: every key of the resolved map is a date of [min_date, max_date] on
\* or after 1948-07-23, and a lookup of a date outside the range or before
\* 1948-07-23 reports absent.
C1_KeysInRange ==
    Computed =>
        /\ \A k \in Iter(TheMap) :
               min_date <= k /\ k <= max_date /\ k >= DATE_00
        /\ \A k \in ((min_date - MaxSpan - 1)..(min_date - 1))
                    \cup ((max_date + 1)..(max_date + MaxSpan + 1))
                    \cup {j \in min_date..max_date : j < DATE_00} :
               /\ ~Contains(TheMap, k)
               /\ GetItem(TheMap, k) = "KeyError"

\* a non-empty map of a range that starts before 1948-07-23, returned to a
\* client
C1_Witness ==
    /\ Computed
    /\ min_date < DATE_00
    /\ Length(TheMap) > 0
    /\ \E t \in Threads : served[t] = _holidays_dict

\* C2: the query range is inclusive at both ends for every rule: a base
\* holiday that falls exactly on min_date or on max_date is in the map with
\* its label, and moving that bound inward by one day removes exactly that
\* entry.
C2_BoundsInclusive ==
    (Computed /\ min_date <= max_date) =>
        /\ \A b \in {min_date, max_date} :
               b \in DOMAIN CatalogueBase =>
                   Labels(TheMap, b, CatalogueBase[b])
        /\ (min_date \in DOMAIN CatalogueBase) =>
               Holidays(min_date + 1, max_date) = Without(TheMap, min_date)
        /\ (max_date \in DOMAIN CatalogueBase) =>
               Holidays(min_date, max_date - 1) = Without(TheMap, max_date)

\* the dates both sweeps of an equinox generator step through, from the
\* anchor of the backward sweep and the first instant of the forward sweep,
\* run unconditionally and clipped to [lower, hi)
RECURSIVE SweepBack(_, _)
SweepBack(dt, lower) ==
    IF DtDate(dt) >= lower
    THEN {DtDate(dt)} \cup SweepBack(DtSub(dt, EquinoxDelta), lower)
    ELSE {}

RECURSIVE SweepForth(_, _)
SweepForth(dt, hi) ==
    IF DtDate(dt) < hi
    THEN {DtDate(dt)} \cup SweepForth(DtAdd(dt, EquinoxDelta), hi)
    ELSE {}

BothSweeps(back, forth, lower, hi) ==
    {d \in SweepBack(back, lower) \cup SweepForth(forth, hi) :
        lower <= d /\ d < hi}

VernalDates(lo, hi) ==
    BothSweeps(<<Date(2018, 3, 21), 1 * 3600 + 7 * 60, 0>>,
               DtAdd(<<Date(2018, 3, 21), 1 * 3600 + 19 * 60, 0>>, EquinoxDelta),
               EquinoxMin(lo), hi)

AutumnalDates(lo, hi) ==
    BothSweeps(<<Date(2018, 9, 23), 10 * 3600 + 52 * 60, 0>>,
               DtAdd(<<Date(2018, 9, 23), 10 * 3600 + 52 * 60, 0>>, EquinoxDelta),
               EquinoxMin(lo), hi)

\* C3: wherever the range lies relative to 2018, every stepped equinox date
\* on or after max(min_date, 1948-07-23) and before max_date is in the map
\* with the equinox label: the conditional passes give what both sweeps run
\* unconditionally and clipped to the range give.
C3_EquinoxSweeps ==
    Computed =>
        /\ \A d \in VernalDates(min_date, max_date) :
               Labels(TheMap, d, "ShunbunNoHi")
        /\ \A d \in AutumnalDates(min_date, max_date) :
               Labels(TheMap, d, "ShubunNoHi")
        /\ {d \in DOMAIN TheMap : TheMap[d] = "ShunbunNoHi"}
               = VernalDates(min_date, max_date)
        /\ {d \in DOMAIN TheMap : TheMap[d] = "ShubunNoHi"}
               = AutumnalDates(min_date, max_date)

FixedHolidays ==
    { <<1, 1, "Ganjitsu">>, <<5, 3, "KenpoKinenbi">>, <<5, 5, "KodomoNoHi">>,
      <<11, 3, "BunkaNoHi">>, <<11, 23, "KinroKanshaNoHi">> }

\* C5: for every fixed-date, never-amended holiday and every year whose
\* date is on or after 1948-07-23 and inside the range, the final map gives
\* that date exactly that holiday's label.
C5_FixedDates ==
    Computed =>
        \A y \in YearOf(DATE_00)..HorizonYear, f \in FixedHolidays :
            LET k == Date(y, f[1], f[2])
            IN  (k >= DATE_00 /\ min_date <= k /\ k <= max_date) =>
                    Labels(TheMap, k, f[3])

\* a map that holds all five fixed holidays of one year, one of them on
\* max_date
C5_Witness ==
    /\ Computed
    /\ \E y \in YearOf(DATE_00)..HorizonYear :
           \A f \in FixedHolidays : Labels(TheMap, Date(y, f[1], f[2]), f[3])
    /\ \E y \in YearOf(DATE_00)..HorizonYear, f \in FixedHolidays :
           Date(y, f[1], f[2]) = min_date

\* the dates of year y the map m labels h
LabelledIn(m, y, h) ==
    {d \in DOMAIN m : m[d] = h /\ Date(y, 1, 1) <= d /\ d <= Date(y, 12, 31)}

\* a date of the range is labelled h
InRangeLabelled(k, h) ==
    (min_date <= k /\ k <= max_date) => Labels(TheMap, k, h)

SundayTrigger(d, base) ==
    /\ min_date <= d /\ d <= max_date
    /\ d >= DATE_07
    /\ d \in DOMAIN base
    /\ weekday(d) = 6

\* C7: from 2007-01-01 on, for every Sunday base holiday D of the range the
\* first date after D that is no base holiday is labelled FurikaeKyujitsu
\* in the final map if it is <= max_date; and a date is labelled so in
\* this era only if it is such a date.
C7_SundaySubstitute ==
    Computed =>
        /\ \A d \in min_date..max_date :
               (SundayTrigger(d, TheBase)
                /\ FirstNonHoliday(d, TheBase) <= max_date) =>
                   Labels(TheMap, FirstNonHoliday(d, TheBase), furikae)
        /\ \A k \in DOMAIN TheMap :
               (TheMap[k] = furikae /\ k > DATE_07) =>
                   \E d \in min_date..(k - 1) :
                       /\ SundayTrigger(d, TheBase)
                       /\ FirstNonHoliday(d, TheBase) = k

\* a substitute holiday two days or more after its Sunday, past the base
\* holidays that follow it
C7_Witness ==
    /\ Computed
    /\ \E d \in min_date..max_date :
           /\ SundayTrigger(d, TheBase)
           /\ FirstNonHoliday(d, TheBase) > d + 1
           /\ Labels(TheMap, FirstNonHoliday(d, TheBase), furikae)

\* C8: the map of an instance is computed at most once, also when two
\* threads make the first access concurrently.
C8_ComputedOnce == ncomputed <= 1

\* the Sunday branch of the derived pass yields a label for d
SubstituteEmitted(d, base) ==
    /\ weekday(d) = 6
    /\ IF d < DATE_07
       THEN (d + 1) \notin DOMAIN base /\ d + 1 <= max_date
       ELSE FirstNonHoliday(d, base) <= max_date

\* C9: for a date D of the range with D >= 1985-12-27, D+1 is labelled
\* KokuminNoKyujitsu exactly when D is a base holiday for which the Sunday
\* branch gave no label, D+2 is a base holiday, D+1 is neither a base
\* holiday nor a Sunday, and D+1 <= max_date; no such label comes from a
\* date before 1985-12-27.
C9_Sandwiched ==
    Computed =>
        /\ \A d \in min_date..max_date :
               d >= DATE_03 =>
                   (Labels(TheMap, d + 1, kokuminno)
                    <=> /\ d \in DOMAIN TheBase
                        /\ ~SubstituteEmitted(d, TheBase)
                        /\ (d + 2) \in DOMAIN TheBase
                        /\ (d + 1) \notin DOMAIN TheBase
                        /\ weekday(d + 1) # 6
                        /\ d + 1 <= max_date)
        /\ \A k \in DOMAIN TheMap :
               TheMap[k] = kokuminno => (k - 1 >= DATE_03 /\ k - 1 >= min_date)

\* a KokuminNoKyujitsu between two base holidays, and a day between two
\* base holidays that is none only because the first is a Sunday whose
\* substitute it is
C9_Witness ==
    /\ Computed
    /\ \E d \in min_date..max_date :
           /\ d >= DATE_03
           /\ Labels(TheMap, d + 1, kokuminno)
    /\ \E d \in min_date..max_date :
           /\ d >= DATE_03
           /\ d \in DOMAIN TheBase /\ (d + 2) \in DOMAIN TheBase
           /\ SubstituteEmitted(d, TheBase)
           /\ Labels(TheMap, d + 1, furikae)

\* C10: the derived pass only adds entries: every date it labels is absent
\* from the base snapshot, and every entry of the base map is in the final
\* map with its label.
C10_DerivedOnlyAdds ==
    Computed =>
        /\ \A k \in Keys(kokuminnokyujitsu(min_date, max_date, TheBase)) :
               k \notin DOMAIN TheBase
        /\ \A k \in DOMAIN TheBase : Labels(TheMap, k, TheBase[k])
        /\ DOMAIN TheMap =
               (DOMAIN TheBase)
               \cup Keys(kokuminnokyujitsu(min_date, max_date, TheBase))

\* a final map with base entries and derived entries of both kinds
C10_Witness ==
    /\ Computed
    /\ TheBase # << >>
    /\ \E k \in DOMAIN TheMap : TheMap[k] = furikae
    /\ \E k \in DOMAIN TheMap : TheMap[k] = kokuminno

\* the map m restricted to the dates of [a, b]
Restricted(m, a, b) == [k \in {j \in DOMAIN m : a <= j /\ j <= b} |-> m[k]]

\* the ranges [a, b] inside [min_date, max_date] that cut at most one day
\* off either end
NarrowedRanges ==
    {r \in {min_date, min_date + 1} \X {max_date - 1, max_date} :
        r[1] <= r[2]}

\* C11: for ranges [a, b] inside [c, d], the map built for [a, b] is the
\* map built for [c, d] restricted to [a, b]: whether a date is a holiday,
\* and its label, does not depend on how wide the query range is.
C11_RangeRestriction ==
    Computed =>
        \A r \in NarrowedRanges :
            Holidays(r[1], r[2]) = Restricted(TheMap, r[1], r[2])

=============================================================================
